---- MODULE Spec2Model ----
(***************************************************************************)
(* Model of src/health_server.py: the /ping health endpoint that probes a  *)
(* co-located Ollama server with one HEAD request per probe.               *)
(*                                                                         *)
(* Time is counted in ticks of one second.  httpx applies the timeout of   *)
(* 2.0 to every network operation separately (connect, each read), so a    *)
(* probe carries two clocks: opTimer, restarted by every operation, and    *)
(* elapsed, the time since the check was issued.                           *)
(***************************************************************************)
EXTENDS Integers, Sequences, FiniteSets, TLC

\* ---- bounds of the model ------------------------------------------------
NProbes == 2          \* probes that can be in flight at the same time
MaxProbes == 3        \* probes started in one behaviour
TricklePieces == 2    \* partial chunks a trickling upstream sends first

\* ---- program constants --------------------------------------------------
Timeout == 2          \* client.head(..., timeout=2.0)

Probes == 1..NProbes

\* Behaviours of the upstream: not listening, accepting (at once or slowly)
\* and never answering, answering in slow partial chunks, and answering at
\* once with a status code.
AnswerModes == {"up200", "up204", "up503"}
Modes == {"down", "hang", "trickle"} \cup AnswerModes

CodeOf(m) ==
    CASE m = "up200" -> 200
      [] m = "up204" -> 204
      [] m = "up503" -> 503
      [] m = "trickle" -> 200
      [] OTHER -> 0

\* Outcome of `await client.head(...)`: a response or a raised exception.
Status(c) == [kind |-> "status", code |-> c, exc |-> "none"]
Raised(e) == [kind |-> "exception", code |-> 0, exc |-> e]

VARIABLES
    lifecycle,       \* "loaded" | "serving" | "stopped"
    clientState,     \* the module-level httpx.AsyncClient: "open" | "closed"
    clientsCreated,  \* AsyncClient objects constructed so far
    clientCloses,    \* calls of client.aclose() so far
    upstream,        \* current behaviour of the upstream
    sinkBroken,      \* logger calls may raise
    probe,           \* per probe slot: position and clocks of the handler
    started,         \* probes started
    requests,        \* HEAD requests handed to the transport
    responses        \* the latest responses returned, oldest first

vars == <<lifecycle, clientState, clientsCreated, clientCloses, upstream,
          sinkBroken, probe, started, requests, responses>>

IdleProbe ==
    [pc |-> "idle", mode |-> "none", phase |-> "none",
     opTimer |-> 0, elapsed |-> 0, pieces |-> 0, calls |-> 0]

Init ==
    /\ lifecycle = "loaded"
    /\ clientState = "open"
    /\ clientsCreated = 1
    /\ clientCloses = 0
    /\ upstream \in Modes
    /\ sinkBroken = FALSE
    /\ probe = [p \in Probes |-> IdleProbe]
    /\ started = 0
    /\ requests = 0
    /\ responses = <<>>

\* ---- the handler's classification (lines 57-66) --------------------------
\* if response.status_code == 200 ... else ...; the except branch
OllamaField_any2xx(outcome) ==
    IF outcome.kind = "status"
    THEN IF outcome.code < 300 THEN "reachable" ELSE "degraded"
    ELSE "initializing"

OllamaField_warmup(outcome) ==
    IF responses = <<>> THEN "initializing"
    ELSE IF outcome.kind = "status"
    THEN IF outcome.code = 200 THEN "reachable" ELSE "degraded"
    ELSE "initializing"

OllamaField_cached(outcome) ==
    IF responses # <<>> THEN responses[Len(responses)].ollama
    ELSE IF outcome.kind = "status"
    THEN IF outcome.code = 200 THEN "reachable" ELSE "degraded"
    ELSE "initializing"

OllamaField(outcome) ==
    IF outcome.kind = "status"
    THEN IF outcome.code = 200 THEN "reachable" ELSE "degraded"
    ELSE "initializing"

\* `except Exception` catches every exception the exchange or a logger raises
Catches_connectOnly(exc) == exc = "ConnectError"

Catches_httpxOnly(exc) == exc # "RuntimeError"

Catches(exc) == TRUE

Failed == [http |-> 500, status |-> "none", ollama |-> "none"]
Healthy(o) == [http |-> 200, status |-> "healthy", ollama |-> o]

\* Lines 57-66.  f1: the logger call of the try block (line 58 or 61)
\* raises; f2: the logger call of the except block (line 65) raises.
HandlerResult(outcome, f1, f2) ==
    LET exceptBranch == IF f2 THEN Failed ELSE Healthy("initializing")
    IN IF outcome.kind = "status"
       THEN IF f1
            THEN IF Catches("LoggingError") THEN exceptBranch ELSE Failed
            ELSE Healthy(OllamaField(outcome))
       ELSE IF Catches(outcome.exc) THEN exceptBranch ELSE Failed

\* Whether a logger call may raise
LogFaults == IF sinkBroken THEN BOOLEAN ELSE {FALSE}

\* The handler neither constructs nor closes the shared client
ProbeClientEffect_asyncWith ==
    /\ clientState' = "closed"
    /\ clientCloses' = clientCloses + 1
    /\ UNCHANGED clientsCreated

ProbeClientEffect == UNCHANGED <<clientState, clientsCreated, clientCloses>>

\* The response of probe slot p is returned and the slot is free again.
Finish(p, pr, outcome, res, logFailed) ==
    /\ responses' = Append(IF Len(responses) < 3 THEN responses
                            ELSE Tail(responses),
          [mode |-> pr.mode, kind |-> outcome.kind,
           code |-> outcome.code, exc |-> outcome.exc, http |-> res.http,
           status |-> res.status, ollama |-> res.ollama,
           elapsed |-> pr.elapsed, calls |-> pr.calls,
           client |-> clientState, logFailed |-> logFailed])
    /\ probe' = [probe EXCEPT ![p] = IdleProbe]

\* Lines 57-66 run after the await of line 55 has produced outcome.
Resume(p, outcome) ==
    \E f1 \in LogFaults, f2 \in LogFaults :
        /\ Finish(p, probe[p], outcome, HandlerResult(outcome, f1, f2),
                  (outcome.kind = "status" /\ f1)
                  \/ ((outcome.kind = "exception" \/ f1) /\ f2))
        /\ ProbeClientEffect
        /\ UNCHANGED <<lifecycle, upstream, sinkBroken, started,
                       requests>>

\* ---- lifecycle ----------------------------------------------------------
startup_event ==
    /\ lifecycle = "loaded"
    /\ lifecycle' = "serving"
    /\ UNCHANGED <<clientState, clientsCreated, clientCloses, upstream,
                   sinkBroken, probe, started, requests, responses>>

shutdown_event ==
    /\ lifecycle = "serving"
    /\ lifecycle' = "stopped"
    /\ clientState' = "closed"
    /\ clientCloses' = clientCloses + 1
    /\ UNCHANGED <<clientsCreated, upstream, sinkBroken, probe,
                   started, requests, responses>>

\* ---- health_check, up to its suspension point (lines 45-55) -------------
health_check(p) ==
    /\ probe[p].pc = "idle"
    /\ started < MaxProbes
    /\ started' = started + 1
    /\ \E f0 \in LogFaults :
         LET pr == [IdleProbe EXCEPT !.mode = upstream]
         IN IF f0
            THEN \* logger.debug of line 51 raises outside the try block
                 /\ Finish(p, pr, Raised("LoggingError"), Failed, TRUE)
                 /\ UNCHANGED requests
            ELSE IF clientState = "closed"
            THEN \* a closed client raises RuntimeError before sending
                 /\ \E f2 \in LogFaults :
                      Finish(p, [pr EXCEPT !.calls = 1],
                             Raised("RuntimeError"),
                             HandlerResult(Raised("RuntimeError"), FALSE, f2),
                             f2)
                 /\ UNCHANGED requests
            ELSE /\ probe' = [probe EXCEPT ![p] =
                        [pr EXCEPT !.pc = "awaiting", !.phase = "connect",
                                   !.calls = 1]]
                 /\ requests' = requests + 1
                 /\ UNCHANGED responses
    /\ ProbeClientEffect
    /\ UNCHANGED <<lifecycle, upstream, sinkBroken>>

\* ---- the exchange with the upstream -------------------------------------
InFlight(p) == probe[p].pc = "awaiting"

\* connection refused: httpx.ConnectError
Refused(p) ==
    /\ InFlight(p) /\ clientState = "open"
    /\ probe[p].phase = "connect" /\ probe[p].mode = "down"
    /\ Resume(p, Raised("ConnectError"))

\* the upstream accepts the connection; the read timer starts
Connected(p) ==
    /\ InFlight(p) /\ clientState = "open"
    /\ probe[p].phase = "connect"
    /\ probe[p].mode # "down"
    /\ probe[p].opTimer < Timeout
    /\ probe' = [probe EXCEPT ![p].phase = "read", ![p].opTimer = 0]
    /\ UNCHANGED <<lifecycle, clientState, clientsCreated, clientCloses,
                   upstream, sinkBroken, started, requests, responses>>

\* a partial chunk of the response arrives, late but before the read timer
\* expires; the read timer restarts
Piece(p) ==
    /\ InFlight(p) /\ clientState = "open"
    /\ probe[p].phase = "read" /\ probe[p].mode = "trickle"
    /\ probe[p].pieces < TricklePieces
    /\ probe[p].opTimer = Timeout - 1
    /\ probe' = [probe EXCEPT ![p].pieces = @ + 1, ![p].opTimer = 0]
    /\ UNCHANGED <<lifecycle, clientState, clientsCreated, clientCloses,
                   upstream, sinkBroken, started, requests, responses>>

\* the response is complete
Answer(p) ==
    /\ InFlight(p) /\ clientState = "open"
    /\ probe[p].phase = "read"
    /\ \/ probe[p].mode \in AnswerModes
       \/ /\ probe[p].mode = "trickle"
          /\ probe[p].pieces = TricklePieces
          /\ probe[p].opTimer = Timeout - 1
    /\ probe[p].opTimer < Timeout
    /\ Resume(p, Status(CodeOf(probe[p].mode)))

TimeoutFire_late(p) ==
    /\ InFlight(p) /\ clientState = "open"
    /\ probe[p].opTimer > Timeout
    /\ Resume(p, Raised(IF probe[p].phase = "connect"
                        THEN "ConnectTimeout" ELSE "ReadTimeout"))

TimeoutFire_retry(p) ==
    /\ InFlight(p) /\ clientState = "open"
    /\ probe[p].opTimer = Timeout
    /\ IF probe[p].calls < 2
       THEN /\ probe' = [probe EXCEPT ![p].phase = "connect",
                                      ![p].opTimer = 0, ![p].calls = @ + 1]
            /\ requests' = requests + 1
            /\ UNCHANGED <<lifecycle, clientState, clientsCreated,
                           clientCloses, upstream, sinkBroken,
                           started, responses>>
       ELSE Resume(p, Raised(IF probe[p].phase = "connect"
                             THEN "ConnectTimeout" ELSE "ReadTimeout"))

\* the timer of the pending operation expires
TimeoutFire(p) ==
    /\ InFlight(p) /\ clientState = "open"
    /\ probe[p].opTimer = Timeout
    /\ Resume(p, Raised(IF probe[p].phase = "connect"
                        THEN "ConnectTimeout" ELSE "ReadTimeout"))

\* the client was closed under a pending exchange: httpx.ReadError
Aborted(p) ==
    /\ InFlight(p) /\ clientState = "closed"
    /\ Resume(p, Raised("ReadError"))

\* How long the pending operation of p can stay pending: a silent upstream
\* lets the timer expire, a trickling one sends its next chunk just before
\* it does, and loopback refusals, accepts and prompt answers take no time.
Limit(p) ==
    CASE probe[p].mode = "hang" -> Timeout
      [] probe[p].mode = "trickle" /\ probe[p].phase = "read" -> Timeout - 1
      [] OTHER -> 0

\* one second passes for every probe in flight
Tick ==
    /\ clientState = "open"
    /\ \E p \in Probes : InFlight(p)
    /\ \A p \in Probes : InFlight(p) => probe[p].opTimer < Limit(p)
    /\ probe' = [p \in Probes |->
                   IF InFlight(p)
                   THEN [probe[p] EXCEPT !.opTimer = @ + 1, !.elapsed = @ + 1]
                   ELSE probe[p]]
    /\ UNCHANGED <<lifecycle, clientState, clientsCreated, clientCloses,
                   upstream, sinkBroken, started, requests, responses>>

\* ---- environment --------------------------------------------------------
UpstreamChange ==
    /\ \E m \in Modes \ {upstream} : upstream' = m
    /\ UNCHANGED <<lifecycle, clientState, clientsCreated, clientCloses,
                   sinkBroken, probe, started, requests, responses>>

\* the stream of the log handler stops accepting writes
SinkBreaks ==
    /\ ~sinkBroken
    /\ sinkBroken' = TRUE
    /\ UNCHANGED <<lifecycle, clientState, clientsCreated, clientCloses,
                   upstream, probe, started, requests, responses>>

Exchange ==
    \E p \in Probes :
        Refused(p) \/ Connected(p) \/ Piece(p) \/ Answer(p) \/ TimeoutFire(p)

\* ---- served by uvicorn.run (lines 68-76) --------------------------------
\* uvicorn accepts requests between the lifespan startup and the beginning
\* of its shutdown, and runs the lifespan shutdown once no request is left.
\* A new request is given the first free slot: slots are interchangeable.
FirstFree(p) ==
    /\ probe[p].pc = "idle"
    /\ \A q \in Probes : q < p => probe[q].pc # "idle"

Serve ==
    /\ lifecycle = "serving"
    /\ \E p \in Probes : FirstFree(p) /\ health_check(p)

Stop == (\A p \in Probes : ~InFlight(p)) /\ shutdown_event

Next ==
    \/ startup_event
    \/ Serve
    \/ Exchange
    \/ Tick
    \/ UpstreamChange
    \/ Stop

Spec == Init /\ [][Next]_vars

\* ---- the upstream hangs throughout -------------------------------------
InitHang ==
    /\ lifecycle = "loaded"
    /\ clientState = "open"
    /\ clientsCreated = 1
    /\ clientCloses = 0
    /\ upstream = "hang"
    /\ sinkBroken = FALSE
    /\ probe = [p \in Probes |-> IdleProbe]
    /\ started = 0
    /\ requests = 0
    /\ responses = <<>>

NextHang ==
    \/ startup_event
    \/ Serve
    \/ \E p \in Probes : Connected(p) \/ TimeoutFire(p)
    \/ Tick
    \/ Stop

\* the event loop runs every ready callback and every expired timer
FairHang ==
    /\ InitHang /\ [][NextHang]_vars
    /\ WF_vars(Tick)
    /\ \A p \in Probes : WF_vars(Connected(p)) /\ WF_vars(TimeoutFire(p))

\* ---- a logger whose calls may raise -------------------------------------
NextLog == Next \/ SinkBreaks

SpecLog == Init /\ [][NextLog]_vars

\* ---- the ASGI app under a host that does not order shutdown and probes ---
\* The upstream keeps the behaviour it starts with, any of Modes.
ServeAny ==
    /\ lifecycle \in {"serving", "stopped"}
    /\ \E p \in Probes : FirstFree(p) /\ health_check(p)

NextAny ==
    \/ startup_event
    \/ ServeAny
    \/ Exchange
    \/ \E p \in Probes : Aborted(p)
    \/ Tick
    \/ shutdown_event

SpecAny == Init /\ [][NextAny]_vars

TypeOK ==
    /\ lifecycle \in {"loaded", "serving", "stopped"}
    /\ clientState \in {"open", "closed"}
    /\ upstream \in Modes
    /\ started \in 0..MaxProbes
    /\ Len(responses) <= started

\* ---- properties ---------------------------------------------------------
Resp == {responses[i] : i \in 1..Len(responses)}

\* Responses returned so far
Returned == started - Cardinality({p \in Probes : InFlight(p)})

\* What a probe reports for an upstream behaving as m throughout its check
FreshField(m) ==
    CASE m \in {"down", "hang"} -> "initializing"
      [] m \in {"up200", "trickle"} -> "reachable"
      [] OTHER -> "degraded"

\* C1: every probe, whatever the outcome of its upstream check (200, another
\* status, timeout, refused connection), returns HTTP 200 with status
\* "healthy".
C1_AlwaysHealthy ==
    \A r \in Resp : r.http = 200 /\ r.status = "healthy"

C1_Witness ==
    /\ \E r \in Resp : r.exc = "ReadTimeout" /\ r.http = 200
    /\ \E r \in Resp : r.exc = "ConnectError" /\ r.http = 200
    /\ \E r \in Resp : r.kind = "status" /\ r.code = 503 /\ r.http = 200

\* C2: the "ollama" field is "reachable" for status 200, "degraded" for any
\* other status code, "initializing" for any exception, and nothing else.
C2_OllamaMapping ==
    \A r \in Resp :
        /\ r.ollama \in {"reachable", "degraded", "initializing"}
        /\ (r.kind = "status" /\ r.code = 200) => r.ollama = "reachable"
        /\ (r.kind = "status" /\ r.code # 200) => r.ollama = "degraded"
        /\ r.kind = "exception" => r.ollama = "initializing"

C2_Witness ==
    /\ \E r \in Resp : r.code = 204 /\ r.ollama = "degraded"
    /\ \E r \in Resp : r.code = 200 /\ r.ollama = "reachable"
    /\ \E r \in Resp : r.exc = "ConnectError" /\ r.ollama = "initializing"

\* C3: the upstream check is abandoned no later than 2 seconds after it was
\* issued, whatever the upstream does: no check is pending and no response
\* is returned more than Timeout after the check was issued.
C3_HardCap ==
    /\ \A p \in Probes : InFlight(p) => probe[p].elapsed <= Timeout
    /\ \A r \in Resp : r.elapsed <= Timeout

\* C4: with every probe slot in flight on a hanging upstream, all of them
\* return their response; each hanging check ends by its own timeout
\* within a delay that does not depend on the number of probes; a probe in
\* flight never keeps another request from being started.
C4_AllReturn ==
    /\ \A k \in 0..MaxProbes :
         ((\A p \in Probes : InFlight(p) /\ probe[p].mode = "hang")
            /\ Returned = k)
         ~> (Returned >= k + NProbes)
    /\ [](\A r \in Resp : r.mode = "hang" =>
             /\ r.exc \in {"ConnectTimeout", "ReadTimeout"}
             /\ r.elapsed >= Timeout /\ r.elapsed < 2 * Timeout)
    /\ [](\A q \in Probes :
             (lifecycle = "serving" /\ probe[q].pc = "idle"
                /\ started < MaxProbes) => ENABLED health_check(q))

C4_Witness ==
    /\ started = NProbes
    /\ Returned = 1
    /\ responses[1].exc = "ReadTimeout"
    /\ \A p \in Probes :
         InFlight(p) => probe[p].mode = "hang" /\ probe[p].opTimer = Timeout

\* C5: probes issued while the upstream's behaviour does not change all get
\* the same HTTP status and the same body.
C5_Idempotent ==
    \A r1 \in Resp, r2 \in Resp :
        r1.mode = r2.mode =>
            /\ r1.http = r2.http
            /\ r1.status = r2.status
            /\ r1.ollama = r2.ollama

C5_Witness ==
    \E i \in 1..Len(responses), j \in 1..Len(responses) :
        /\ i < j
        /\ responses[i].mode = "up200"
        /\ responses[j].mode = "up200"
        /\ responses[j].ollama = "reachable"

\* C6: a logger call that fails during a probe does not reach the caller:
\* the probe returns HTTP 200 with the body it returns when logging works.
C6_LoggingNeverPropagates ==
    \A r \in Resp :
        r.logFailed =>
            /\ r.http = 200
            /\ r.status = "healthy"
            /\ r.ollama = FreshField(r.mode)

\* C7: the response of a probe is decided by the upstream's behaviour during
\* that probe alone, whatever the earlier probes returned.
C7_Fresh ==
    \A r \in Resp : r.ollama = FreshField(r.mode)

C7_Witness ==
    \E i \in 1..Len(responses) :
        /\ i + 2 <= Len(responses)
        /\ responses[i].mode = "down"
        /\ responses[i].ollama = "initializing"
        /\ responses[i + 1].mode = "up200"
        /\ responses[i + 1].ollama = "reachable"
        /\ responses[i + 2].mode = "down"
        /\ responses[i + 2].ollama = "initializing"

\* C8: every probe calls the upstream exactly once, also after a timeout, a
\* transport failure or a non-200 answer: the requests issued are as many
\* as the probes started.
C8_OneRequest ==
    /\ requests = started
    /\ \A r \in Resp : r.calls = 1
    /\ \A p \in Probes : InFlight(p) => probe[p].calls = 1

C8_Witness ==
    /\ started = MaxProbes
    /\ requests = MaxProbes
    /\ \E r \in Resp : r.exc = "ReadTimeout"
    /\ \E r \in Resp : r.code = 503

\* C9: one client is created, at load time; it is closed once, by the
\* shutdown handler; probes neither create nor close it and all use it.
C9_ClientLifetime ==
    /\ clientsCreated = 1
    /\ clientCloses = (IF lifecycle = "stopped" THEN 1 ELSE 0)
    /\ (clientState = "closed") <=> (lifecycle = "stopped")
    /\ \A r \in Resp : r.client = "open"

C9_Witness ==
    /\ lifecycle = "stopped"
    /\ clientCloses = 1
    /\ Len(responses) >= 2

\* C10: a probe whose check is issued, or still pending, after the client
\* was closed returns HTTP 200 with status "healthy" and "initializing".
C10_ClosedClientAbsorbed ==
    \A r \in Resp :
        r.client = "closed" =>
            /\ r.http = 200
            /\ r.status = "healthy"
            /\ r.ollama = "initializing"

C10_Witness ==
    /\ \E r \in Resp : r.exc = "ReadError" /\ r.client = "closed"
    /\ \E r \in Resp : r.exc = "RuntimeError" /\ r.client = "closed"

====
